---- MODULE Spec2Model ----
(***************************************************************************)
(* Model of the CRX container decoder of uncrx-rs (src/uncrx/helpers.rs).  *)
(*                                                                         *)
(* A byte vector (Vec<u8>, &[u8]) is the record                            *)
(*     [len, head, gen]                                                    *)
(* len is its length, head its first Min(len, Window) bytes, written out,  *)
(* and gen = [pat, from] generates the bytes after the window: the byte at *)
(* 0-based index i >= Window is TailByte(gen.pat, gen.from + i).  A vector *)
(* that fits in the window is exactly its head (gen = NoGen).              *)
(*                                                                         *)
(* TLC's integers are 32-bit signed, so a u32 or usize value is kept as    *)
(* two limbs [hi, lo] of 16 bits: the value is hi * 2^16 + lo.  This keeps *)
(* the width of u32 (2^32) and lets a buffer be longer than 2^32 bytes.    *)
(*                                                                         *)
(* parse_crx runs one statement per step; every variable is indexed by the *)
(* call that owns it.                                                      *)
(*                                                                         *)
(* The binary around the decoder (src/main.rs, src/tui_app.rs) works on a  *)
(* file system of named nodes: main runs one statement per step, the       *)
(* terminal UI one draw, one key and one conversion per step; both call    *)
(* parse_crx as a whole (parse_crx_alone).                                 *)
(***************************************************************************)
EXTENDS Integers, Sequences, FiniteSets, TLC

VARIABLES
    data,             \* data[c]: the input buffer of call c
    pc,               \* pc[c]: the statement of parse_crx call c executes next
    frame,            \* frame[c]: the locals of parse_crx in call c
    ret,              \* ret[c]: how call c ended (Ok, Err(msg), a panic)
    extension,        \* extension[c]: the CrxExtension call c returned
    overflow_checks,  \* build profile: are integer overflows checked (debug)
    fs,               \* the file system: the set of its directories and files
    proc,             \* the process of the binary: mode, position, exit status
    locals,           \* the locals of main (or of the extraction test)
    app               \* the App of the terminal UI

\* the state of the programs that call parse_crx
program == <<fs, proc, locals, app>>

vars == <<data, pc, frame, ret, extension, overflow_checks, fs, proc, locals, app>>

---------------------------------------------------------------------------
(* Bounds of the model *)

MaxKey == 5
MaxSig == 3
MaxPayload == 2

\* number of bytes of a vector that are written out
Window == 16 + MaxKey + MaxSig + MaxPayload

Calls == {1, 2}



---------------------------------------------------------------------------
(* u32 and usize values: hi * Base + lo, with 0 <= lo < Base *)

Base == 2^16

\* the number n, for 0 <= n < 2^31
U(n) == [hi |-> n \div Base, lo |-> n % Base]

Plus(a, b) ==
    [hi |-> a.hi + b.hi + ((a.lo + b.lo) \div Base), lo |-> (a.lo + b.lo) % Base]

\* a - b, for a >= b
Minus(a, b) ==
    IF a.lo < b.lo
    THEN [hi |-> a.hi - b.hi - 1, lo |-> a.lo + Base - b.lo]
    ELSE [hi |-> a.hi - b.hi, lo |-> a.lo - b.lo]

Less(a, b) == a.hi < b.hi \/ (a.hi = b.hi /\ a.lo < b.lo)
LessEq(a, b) == ~Less(b, a)

\* the integer a, for a < 2^31
AsInt(a) == a.hi * Base + a.lo

\* does a fit in 32 bits
Fits32(a) == a.hi < Base

\* a modulo 2^32
Wrap32(a) == [hi |-> a.hi % Base, lo |-> a.lo]

---------------------------------------------------------------------------
(* Byte vectors *)

Patterns == {1, 7}

\* the generated byte at 0-based index i of pattern pat
TailByte(pat, i) == (((i.hi % 251) * (Base % 251) + i.lo + 1) * pat) % 251

NoGen == [pat |-> 0, from |-> U(0)]

EmptyVec == [len |-> U(0), head |-> <<>>, gen |-> NoGen]

\* the vector of the bytes written in s (Len(s) <= Window)
VecOf(s) == [len |-> U(Len(s)), head |-> s, gen |-> NoGen]

\* the byte at 0-based index i < v.len
ByteAt(v, i) ==
    IF Less(i, U(Len(v.head)))
    THEN v.head[AsInt(i) + 1]
    ELSE TailByte(v.gen.pat, Plus(v.gen.from, i))

\* the bytes [start, end) of v, for start <= end <= v.len
Slice(v, start, end) ==
    LET n == Minus(end, start)
        shown == IF Less(U(Window), n) THEN Window ELSE AsInt(n)
    IN  [len  |-> n,
         head |-> [k \in 1..shown |-> ByteAt(v, Plus(start, U(k - 1)))],
         gen  |-> IF Less(U(Window), n)
                  THEN [pat |-> v.gen.pat, from |-> Plus(v.gen.from, start)]
                  ELSE NoGen]

---------------------------------------------------------------------------
(* Results *)

Ok(v) == [ok |-> TRUE, val |-> v, msg |-> ""]
Err(m) == [ok |-> FALSE, val |-> 0, msg |-> m]

TooShortMsg == "Data is too short"
InvalidFormatMsg == "Invalid CRX file"

None == [some |-> FALSE, val |-> EmptyVec]
Some(v) == [some |-> TRUE, val |-> v]

---------------------------------------------------------------------------
(* constants.rs *)

CRX_MAGIC_VALUE == <<67, 114, 50, 52>>
MAGIC_VALUE_RANGE == [start |-> 0, end |-> 4]
CRX_VERSION_RANGE == [start |-> 4, end |-> 8]
PUBLIC_KEY_LENGTH_RANGE == [start |-> 8, end |-> 12]
SIGNATURE_LENGTH_RANGE == [start |-> 12, end |-> 16]

---------------------------------------------------------------------------
(* helpers.rs: the field readers *)

\* the bytes read most significant first
u32_from_be_bytes(b) == [hi |-> b[2] + 256 * b[1], lo |-> b[4] + 256 * b[3]]

\* u32::from_le_bytes on a 4-byte array: b[1] + 2^8 b[2] + 2^16 b[3] + 2^24 b[4]
u32_from_le_bytes(b) == [hi |-> b[3] + 256 * b[4], lo |-> b[1] + 256 * b[2]]

get_slice_from_range(d, range) ==
    IF Less(d.len, U(range.end))
    THEN Err(TooShortMsg)
    ELSE Ok(Slice(d, U(range.start), U(range.end)))

get_crx_header(d) ==
    LET slice == get_slice_from_range(d, MAGIC_VALUE_RANGE)
    IN  IF slice.ok THEN Ok(slice.val.head) ELSE slice

get_crx_version(d) ==
    LET slice == get_slice_from_range(d, CRX_VERSION_RANGE)
    IN  IF slice.ok THEN Ok(u32_from_le_bytes(slice.val.head)) ELSE slice

\* a comparison that stops one byte early
is_valid_crx_first3(magic) == Ok(SubSeq(magic, 1, 3) = SubSeq(CRX_MAGIC_VALUE, 1, 3))

is_valid_crx(magic) == Ok(magic = CRX_MAGIC_VALUE)

get_public_key_length(d) ==
    LET slice == get_slice_from_range(d, PUBLIC_KEY_LENGTH_RANGE)
    IN  IF slice.ok THEN Ok(u32_from_le_bytes(slice.val.head)) ELSE slice

get_signature_key_length(d) ==
    LET slice == get_slice_from_range(d, SIGNATURE_LENGTH_RANGE)
    IN  IF slice.ok THEN Ok(u32_from_le_bytes(slice.val.head)) ELSE slice

---------------------------------------------------------------------------
(* helpers.rs: the unchecked parts of parse_crx *)

\* data[start..end].to_vec(): indexing panics when the range leaves the buffer
index_range(d, start, end) ==
    IF Less(end, start)
    THEN Err("slice index starts after its end")
    ELSE IF Less(d.len, end)
         THEN Err("range end index out of range for slice")
         ELSE Ok(Slice(d, start, end))

\* the start counted from a cursor that every finished call has moved on
index_range_from_shared_cursor(d, start) ==
    LET moved == Plus(start, U(Cardinality({c \in Calls : pc[c] = "done"})))
    IN  IF Less(d.len, moved)
        THEN Err("range start index out of range for slice")
        ELSE Ok(Slice(d, moved, d.len))

\* data[start..].to_vec()
index_range_from(d, start) ==
    IF Less(d.len, start)
    THEN Err("range start index out of range for slice")
    ELSE Ok(Slice(d, start, d.len))

\* a + b on u32: panics when overflow checks are compiled in, wraps otherwise
u32_add(a, b, checked) ==
    IF Fits32(Plus(a, b))
    THEN Ok(Plus(a, b))
    ELSE IF checked
         THEN Err("attempt to add with overflow")
         ELSE Ok(Wrap32(Plus(a, b)))

\* let header = if version <= 2 { 16 } else { 12 };
header_size(version) == IF LessEq(version, U(2)) THEN U(16) ELSE U(12)

\* (header + signature_key_length + public_key_length) as usize
zip_start_offset(version, signature_key_length, public_key_length, checked) ==
    LET first == u32_add(header_size(version), signature_key_length, checked)
    IN  IF first.ok THEN u32_add(first.val, public_key_length, checked) ELSE first

---------------------------------------------------------------------------
(* The state of a call *)

NoFrame ==
    [header               |-> <<>>,
     version              |-> U(0),
     public_key_length    |-> U(0),
     public_key           |-> EmptyVec,
     signature_key_length |-> U(0),
     signature            |-> None]

NoExtension ==
    [version |-> U(0), public_key |-> EmptyVec, signature |-> None, zip |-> EmptyVec]

Running == [kind |-> "Running", msg |-> ""]
Returned == [kind |-> "Ok", msg |-> ""]
Failed(m) == [kind |-> "Err", msg |-> m]
Panicked(m) == [kind |-> "Panic", msg |-> m]

\* the error returned together with the fields read so far
ReturnErrWithFields(c, m) ==
    /\ ret' = [ret EXCEPT ![c] = Failed(m)]
    /\ extension' = [extension EXCEPT ![c] =
                         [version    |-> frame[c].version,
                          public_key |-> frame[c].public_key,
                          signature  |-> frame[c].signature,
                          zip        |-> EmptyVec]]
    /\ pc' = [pc EXCEPT ![c] = "done"]
    /\ UNCHANGED <<data, frame, overflow_checks, program>>

\* return Err(..) / the ? operator: the call ends with the error alone
ReturnErr(c, m) ==
    /\ ret' = [ret EXCEPT ![c] = Failed(m)]
    /\ pc' = [pc EXCEPT ![c] = "done"]
    /\ UNCHANGED <<data, frame, extension, overflow_checks, program>>

\* a panic unwinds the call
Panic(c, m) ==
    /\ ret' = [ret EXCEPT ![c] = Panicked(m)]
    /\ pc' = [pc EXCEPT ![c] = "done"]
    /\ UNCHANGED <<data, frame, extension, overflow_checks, program>>

\* the locals kept in one place shared by all calls
AssignShared(c, f, next) ==
    /\ frame' = [x \in Calls |-> f]
    /\ pc' = [pc EXCEPT ![c] = next]
    /\ UNCHANGED <<data, ret, extension, overflow_checks, program>>

\* a local is assigned and control moves on
Assign(c, f, next) ==
    /\ frame' = [frame EXCEPT ![c] = f]
    /\ pc' = [pc EXCEPT ![c] = next]
    /\ UNCHANGED <<data, ret, extension, overflow_checks, program>>

---------------------------------------------------------------------------
(* parse_crx, statement by statement *)

\* let header = get_crx_header(data)?;
parse_crx_header(c) ==
    /\ pc[c] = "header"
    /\ LET r == get_crx_header(data[c])
       IN  IF r.ok
           THEN Assign(c, [frame[c] EXCEPT !.header = r.val], "is_valid")
           ELSE ReturnErr(c, r.msg)

\* let is_valid = is_valid_crx(&header)?; if !is_valid { return Err(..) }
parse_crx_is_valid(c) ==
    /\ pc[c] = "is_valid"
    /\ LET r == is_valid_crx(frame[c].header)
       IN  IF ~r.ok
           THEN ReturnErr(c, r.msg)
           ELSE IF ~r.val
                THEN ReturnErr(c, InvalidFormatMsg)
                ELSE Assign(c, frame[c], "version")

\* let version = get_crx_version(data)?;
parse_crx_version(c) ==
    /\ pc[c] = "version"
    /\ LET r == get_crx_version(data[c])
       IN  IF r.ok
           THEN Assign(c, [frame[c] EXCEPT !.version = r.val], "public_key_length")
           ELSE ReturnErr(c, r.msg)

\* let public_key_length = get_public_key_length(data)?;
parse_crx_public_key_length(c) ==
    /\ pc[c] = "public_key_length"
    /\ LET r == get_public_key_length(data[c])
       IN  IF r.ok
           THEN Assign(c, [frame[c] EXCEPT !.public_key_length = r.val], "public_key")
           ELSE ReturnErr(c, r.msg)

\* the key read where the header ends instead of at 16
parse_crx_public_key_after_header(c) ==
    /\ pc[c] = "public_key"
    /\ LET start == header_size(frame[c].version)
           r == index_range(data[c], start, Plus(start, frame[c].public_key_length))
       IN  IF r.ok
           THEN Assign(c, [frame[c] EXCEPT !.public_key = r.val],
                       "signature_key_length")
           ELSE Panic(c, r.msg)

\* let public_key = data[16..(16 + public_key_length as usize)].to_vec();
parse_crx_public_key(c) ==
    /\ pc[c] = "public_key"
    /\ LET r == index_range(data[c], U(16), Plus(U(16), frame[c].public_key_length))
       IN  IF r.ok
           THEN Assign(c, [frame[c] EXCEPT !.public_key = r.val],
                       "signature_key_length")
           ELSE Panic(c, r.msg)

\* let signature_key_length = if version <= 2 { get_signature_key_length(data)? }
\*                            else { 0 };
parse_crx_signature_key_length(c) ==
    /\ pc[c] = "signature_key_length"
    /\ LET r == IF LessEq(frame[c].version, U(2))
                THEN get_signature_key_length(data[c])
                ELSE Ok(U(0))
       IN  IF r.ok
           THEN Assign(c, [frame[c] EXCEPT !.signature_key_length = r.val],
                       "signature")
           ELSE ReturnErr(c, r.msg)

\* the signature read after the key instead of at 16
parse_crx_signature_after_key(c) ==
    /\ pc[c] = "signature"
    /\ IF frame[c].signature_key_length = U(0)
       THEN Assign(c, [frame[c] EXCEPT !.signature = None], "zip")
       ELSE LET start == Plus(U(16), frame[c].public_key_length)
                r == index_range(data[c], start,
                                 Plus(start, frame[c].signature_key_length))
            IN  IF r.ok
                THEN Assign(c, [frame[c] EXCEPT !.signature = Some(r.val)], "zip")
                ELSE Panic(c, r.msg)

\* let signature = match signature_key_length { 0 => None, _ => Some(data[16..]) };
parse_crx_signature(c) ==
    /\ pc[c] = "signature"
    /\ IF frame[c].signature_key_length = U(0)
       THEN Assign(c, [frame[c] EXCEPT !.signature = None], "zip")
       ELSE LET r == index_range(data[c], U(16),
                                 Plus(U(16), frame[c].signature_key_length))
            IN  IF r.ok
                THEN Assign(c, [frame[c] EXCEPT !.signature = Some(r.val)], "zip")
                ELSE Panic(c, r.msg)

\* the payload split off the buffer (Vec::split_off) instead of copied
parse_crx_zip_split_off(c) ==
    /\ pc[c] = "zip"
    /\ LET off == zip_start_offset(frame[c].version, frame[c].signature_key_length,
                                   frame[c].public_key_length, overflow_checks)
       IN  IF ~off.ok
           THEN Panic(c, off.msg)
           ELSE LET zip == index_range_from(data[c], off.val)
                IN  IF ~zip.ok
                    THEN Panic(c, zip.msg)
                    ELSE /\ extension' =
                              [extension EXCEPT ![c] =
                                  [version    |-> frame[c].version,
                                   public_key |-> frame[c].public_key,
                                   signature  |-> frame[c].signature,
                                   zip        |-> zip.val]]
                         /\ data' = [data EXCEPT ![c] = Slice(data[c], U(0), off.val)]
                         /\ ret' = [ret EXCEPT ![c] = Returned]
                         /\ pc' = [pc EXCEPT ![c] = "done"]
                         /\ UNCHANGED <<frame, overflow_checks, program>>

\* let header = ..; let zip_start_offset = ..; let zip = data[zip_start_offset..]
\* .to_vec(); Ok(CrxExtension { version, public_key, signature, zip })
parse_crx_zip(c) ==
    /\ pc[c] = "zip"
    /\ LET off == zip_start_offset(frame[c].version, frame[c].signature_key_length,
                                   frame[c].public_key_length, overflow_checks)
       IN  IF ~off.ok
           THEN Panic(c, off.msg)
           ELSE LET zip == index_range_from(data[c], off.val)
                IN  IF ~zip.ok
                    THEN Panic(c, zip.msg)
                    ELSE /\ extension' =
                              [extension EXCEPT ![c] =
                                  [version    |-> frame[c].version,
                                   public_key |-> frame[c].public_key,
                                   signature  |-> frame[c].signature,
                                   zip        |-> zip.val]]
                         /\ ret' = [ret EXCEPT ![c] = Returned]
                         /\ pc' = [pc EXCEPT ![c] = "done"]
                         /\ UNCHANGED <<data, frame, overflow_checks, program>>

parse_crx(c) ==
    \/ parse_crx_header(c)
    \/ parse_crx_is_valid(c)
    \/ parse_crx_version(c)
    \/ parse_crx_public_key_length(c)
    \/ parse_crx_public_key(c)
    \/ parse_crx_signature_key_length(c)
    \/ parse_crx_signature(c)
    \/ parse_crx_zip(c)

\* parse_crx as one call: what it returns for the buffer d
parse_crx_alone(d, checked) ==
    LET stop(r) == [ret |-> r, extension |-> NoExtension]
        header == get_crx_header(d)
        is_valid == is_valid_crx(header.val)
        version == get_crx_version(d)
        public_key_length == get_public_key_length(d)
        public_key == index_range(d, U(16), Plus(U(16), public_key_length.val))
        signature_key_length ==
            IF LessEq(version.val, U(2)) THEN get_signature_key_length(d) ELSE Ok(U(0))
        signature ==
            IF signature_key_length.val = U(0)
            THEN Ok(None)
            ELSE LET r == index_range(d, U(16), Plus(U(16), signature_key_length.val))
                 IN  IF r.ok THEN Ok(Some(r.val)) ELSE r
        off == zip_start_offset(version.val, signature_key_length.val,
                                public_key_length.val, checked)
        zip == index_range_from(d, off.val)
    IN  IF ~header.ok THEN stop(Failed(header.msg))
        ELSE IF ~is_valid.ok THEN stop(Failed(is_valid.msg))
        ELSE IF ~is_valid.val THEN stop(Failed(InvalidFormatMsg))
        ELSE IF ~version.ok THEN stop(Failed(version.msg))
        ELSE IF ~public_key_length.ok THEN stop(Failed(public_key_length.msg))
        ELSE IF ~public_key.ok THEN stop(Panicked(public_key.msg))
        ELSE IF ~signature_key_length.ok THEN stop(Failed(signature_key_length.msg))
        ELSE IF ~signature.ok THEN stop(Panicked(signature.msg))
        ELSE IF ~off.ok THEN stop(Panicked(off.msg))
        ELSE IF ~zip.ok THEN stop(Panicked(zip.msg))
        ELSE [ret       |-> Returned,
              extension |-> [version    |-> version.val,
                             public_key |-> public_key.val,
                             signature  |-> signature.val,
                             zip        |-> zip.val]]

---------------------------------------------------------------------------
(* Inputs *)

\* the 4 bytes that u32::from_le_bytes reads as v
LeBytes(v) == <<v.lo % 256, v.lo \div 256, v.hi % 256, v.hi \div 256>>

Magics == {CRX_MAGIC_VALUE, <<67, 114, 50, 51>>, <<52, 50, 114, 67>>}
\* 2^31, 2^31 - 16, 2^32 - 1 and 2^32
Pow31 == [hi |-> 2^15, lo |-> 0]
Pow31Less16 == [hi |-> 2^15 - 1, lo |-> Base - 16]
MaxU32 == [hi |-> Base - 1, lo |-> Base - 1]
Pow32 == [hi |-> Base, lo |-> 0]

Versions == {U(v) : v \in {0, 1, 2, 3, 4, 16777218}} \cup {MaxU32}
KeyLengths == {U(k) : k \in 0..MaxKey} \cup {Pow31, MaxU32}
SigLengths == {U(k) : k \in 0..MaxSig} \cup {Pow31Less16, MaxU32}
Lengths ==
    {U(n) : n \in 0..Window} \cup {Plus(Pow31, U(16)), Pow32, Plus(Pow32, U(16))}

\* the first n bytes of the file magic, version, key length, signature length,
\* followed by the bytes of pattern pat
Input(magic, version, key_length, sig_length, pat, n) ==
    LET full == magic \o LeBytes(version) \o LeBytes(key_length)
                      \o LeBytes(sig_length)
                      \o [k \in 1..(Window - 16) |-> TailByte(pat, U(15 + k))]
    IN  [len  |-> n,
         head |-> SubSeq(full, 1, IF Less(U(Window), n) THEN Window ELSE AsInt(n)),
         gen  |-> IF Less(U(Window), n)
                  THEN [pat |-> pat, from |-> U(0)]
                  ELSE NoGen]

Inputs ==
    { Input(m, v, p, s, pat, n) :
        m \in Magics, v \in Versions, p \in KeyLengths, s \in SigLengths,
        pat \in Patterns, n \in Lengths }

---------------------------------------------------------------------------
(* The binary is not running *)

NotStarted ==
    [mode |-> "none", at |-> "none", cwd |-> <<>>, key |-> "", status |-> -1, message |-> ""]

NoLocals == [filename |-> <<>>]

NoApp ==
    [state         |-> [kind |-> "none", path |-> <<>>, msg |-> ""],
     items         |-> <<>>,
     selected_item |-> [some |-> FALSE, val |-> 0],
     current_dir   |-> <<>>,
     output_dir    |-> <<>>]

NoProgram ==
    /\ fs = {}
    /\ proc = NotStarted
    /\ locals = NoLocals
    /\ app = NoApp

---------------------------------------------------------------------------
(* One call of parse_crx on any input *)

Init ==
    /\ \E d \in Inputs : data = [c \in Calls |-> IF c = 1 THEN d ELSE EmptyVec]
    /\ pc = [c \in Calls |-> IF c = 1 THEN "header" ELSE "idle"]
    /\ frame = [c \in Calls |-> NoFrame]
    /\ ret = [c \in Calls |-> Running]
    /\ extension = [c \in Calls |-> NoExtension]
    /\ overflow_checks \in BOOLEAN
    /\ NoProgram

Next == \E c \in Calls : parse_crx(c)

Spec == Init /\ [][Next]_vars

---------------------------------------------------------------------------
(* Two calls of parse_crx, their statements interleaved in any order *)

\* a few buffers of every kind of outcome
PairInputs ==
    {Input(CRX_MAGIC_VALUE, v, p, s, 1, n) :
        v \in {U(2), U(3)}, p \in {U(1), Pow31}, s \in {U(1), Pow31Less16},
        n \in {U(3), U(10), U(17), U(19), Pow32}}
    \cup {Input(<<67, 114, 50, 51>>, U(2), U(1), U(1), 7, U(19))}

InitCalls(d1, d2) ==
    /\ data = [c \in Calls |-> IF c = 1 THEN d1 ELSE d2]
    /\ pc = [c \in Calls |-> "header"]
    /\ frame = [c \in Calls |-> NoFrame]
    /\ ret = [c \in Calls |-> Running]
    /\ extension = [c \in Calls |-> NoExtension]
    /\ overflow_checks \in BOOLEAN
    /\ NoProgram

\* the same buffer decoded twice
InitTwice == \E d \in PairInputs : InitCalls(d, d)

SpecTwice == InitTwice /\ [][Next]_vars

\* two buffers decoded at the same time
InitPair == \E d1 \in PairInputs, d2 \in PairInputs : InitCalls(d1, d2)

SpecPair == InitPair /\ [][Next]_vars

---------------------------------------------------------------------------
(* File names and paths *)

\* A file name is the sequence of its parts between dots ("sample.crx" is
\* <<"sample", "crx">>, ".." is <<"", "", "">>); a path is a sequence of names
\* (the root is <<>>).
DotDot == <<"", "", "">>

\* a part that is not valid UTF-8 (the byte FF)
NotUtf8 == {"\\xFF"}

NoName == [some |-> FALSE, val |-> <<>>]

SomeName(n) == [some |-> TRUE, val |-> n]

\* str::ends_with(".crx") on a file name
ends_with_crx(name) == Len(name) >= 2 /\ name[Len(name)] = "crx"

\* is the name one without an extension: no dot, or only a leading dot
NoExtensionIn(name) == Len(name) = 1 \/ (Len(name) = 2 /\ name[1] = "")

\* Path::extension
path_extension(path) ==
    IF path = <<>> \/ path[Len(path)] = DotDot \/ NoExtensionIn(path[Len(path)])
    THEN NoName
    ELSE SomeName(<<path[Len(path)][Len(path[Len(path)])]>>)

\* Path::file_stem
file_stem(path) ==
    IF path = <<>> \/ path[Len(path)] = DotDot
    THEN NoName
    ELSE IF NoExtensionIn(path[Len(path)])
         THEN SomeName(path[Len(path)])
         ELSE SomeName(SubSeq(path[Len(path)], 1, Len(path[Len(path)]) - 1))

\* OsStr::to_str
to_str(name) ==
    IF \E k \in 1..Len(name) : name[k] \in NotUtf8 THEN NoName ELSE SomeName(name)

\* file_stem().and_then(|s| s.to_str()).unwrap_or("extension")
stem_or_extension(path) ==
    LET stem == file_stem(path)
        text == IF stem.some THEN to_str(stem.val) ELSE NoName
    IN  IF text.some THEN text.val ELSE <<"extension">>

\* Path::parent
parent(path) == SubSeq(path, 1, Len(path) - 1)

IsPrefix(p, q) == Len(p) <= Len(q) /\ SubSeq(q, 1, Len(p)) = p

---------------------------------------------------------------------------
(* The file system: a set of nodes [path, kind, content] *)

DirNode(p) == [path |-> p, kind |-> "dir", content |-> EmptyVec]

FileNode(p, content) == [path |-> p, kind |-> "file", content |-> content]

FsOk(f) == [ok |-> TRUE, msg |-> "", fs |-> f]

FsErr(m, f) == [ok |-> FALSE, msg |-> m, fs |-> f]

\* Path::exists
exists(f, p) == p = <<>> \/ \E n \in f : n.path = p

\* Path::is_dir
is_dir(f, p) == p = <<>> \/ DirNode(p) \in f

\* Path::is_file
is_file(f, p) == \E n \in f : n.path = p /\ n.kind = "file"

\* fs::create_dir_all
create_dir_all(f, p) ==
    IF \E k \in 1..Len(p) : is_file(f, SubSeq(p, 1, k))
    THEN FsErr(IF is_file(f, p) THEN "File exists" ELSE "Not a directory", f)
    ELSE FsOk(f \cup {DirNode(SubSeq(p, 1, k)) : k \in 1..Len(p)})

\* fs::remove_dir_all
remove_dir_all(f, p) ==
    IF ~exists(f, p) THEN FsErr("No such file or directory", f)
    ELSE IF ~is_dir(f, p) THEN FsErr("Not a directory", f)
    ELSE FsOk({n \in f : ~IsPrefix(p, n.path)})

\* fs::File::create and io::copy of the content into the file
File_create(f, p, content) ==
    IF ~exists(f, parent(p)) THEN FsErr("No such file or directory", f)
    ELSE IF ~is_dir(f, parent(p)) THEN FsErr("Not a directory", f)
    ELSE IF is_dir(f, p) THEN FsErr("Is a directory", f)
    ELSE FsOk({n \in f : n.path # p} \cup {FileNode(p, content)})

\* fs::read
fs_read(f, p) ==
    IF ~exists(f, p) THEN Err("No such file or directory")
    ELSE IF is_dir(f, p) THEN Err("Is a directory")
    ELSE Ok((CHOOSE n \in f : n.path = p).content)

\* fs::read_dir: the paths of the entries of directory p
read_dir(f, p) == {n.path : n \in {m \in f : Len(m.path) = Len(p) + 1 /\ IsPrefix(p, m.path)}}

---------------------------------------------------------------------------
(* Archives and extract_zip_to_directory *)

\* An archive is the sequence of its entries [name, dir, content]: name is the
\* entry's path, dir says that the entry's name ends with '/'.
FileEntry(name, content) == [name |-> name, dir |-> FALSE, content |-> VecOf(content)]

DirEntry(name) == [name |-> name, dir |-> TRUE, content |-> EmptyVec]

\* the payloads that are archives: the bytes of each and its entries
Archives ==
    { [bytes   |-> <<80, 75, 3, 1>>,
       entries |-> << FileEntry(<< <<"manifest", "json">> >>, <<1>>),
                      DirEntry(<< <<"js">> >>),
                      FileEntry(<< <<"js">>, <<"bg", "js">> >>, <<2>>),
                      FileEntry(<< DotDot, <<"evil", "txt">> >>, <<6>>) >>],
      [bytes   |-> <<80, 75, 3, 2>>,
       entries |-> << FileEntry(<< <<"icons">>, <<"16", "png">> >>, <<3>>),
                      FileEntry(<< <<"manifest", "json">> >>, <<4>>) >>],
      [bytes   |-> <<80, 75, 3, 3>>,
       entries |-> << FileEntry(<< <<"a">> >>, <<5>>),
                      FileEntry(<< <<"a">>, <<"b">> >>, <<5>>) >>] }

\* ZipArchive::new(cursor): the entries of the archive, or an error
ZipArchive_new(zip_data) ==
    IF \E a \in Archives : VecOf(a.bytes) = zip_data
    THEN Ok((CHOOSE a \in Archives : VecOf(a.bytes) = zip_data).entries)
    ELSE Err("invalid Zip archive")

\* ZipFile::enclosed_name: none for a name that leaves the directory
enclosed_name(file) ==
    IF \E k \in 1..Len(file.name) : file.name[k] = DotDot
    THEN NoName
    ELSE SomeName(file.name)

\* the loop over the entries from index i on
RECURSIVE extract_entries(_, _, _, _)
extract_entries(f, archive, i, extract_to) ==
    IF i > Len(archive)
    THEN FsOk(f)
    ELSE LET file == archive[i]
             enclosed == enclosed_name(file)
             outpath == extract_to \o enclosed.val
             p == parent(outpath)
             made == IF file.dir
                     THEN create_dir_all(f, outpath)
                     ELSE IF ~exists(f, p) THEN create_dir_all(f, p) ELSE FsOk(f)
             outfile == IF file.dir \/ ~made.ok
                        THEN made
                        ELSE File_create(made.fs, outpath, file.content)
         IN  IF ~enclosed.some
             THEN extract_entries(f, archive, i + 1, extract_to)
             ELSE IF ~outfile.ok
                  THEN outfile
                  ELSE extract_entries(outfile.fs, archive, i + 1, extract_to)

\* the directory emptied before the entries are written
extract_zip_to_directory_emptied(f, zip_data, extract_to) ==
    LET archive == ZipArchive_new(zip_data)
    IN  IF ~archive.ok
        THEN FsErr(archive.msg, f)
        ELSE extract_entries({n \in f : n.path = extract_to \/ ~IsPrefix(extract_to, n.path)},
                             archive.val, 1, extract_to)

extract_zip_to_directory(f, zip_data, extract_to) ==
    LET archive == ZipArchive_new(zip_data)
    IN  IF ~archive.ok
        THEN FsErr(archive.msg, f)
        ELSE extract_entries(f, archive.val, 1, extract_to)

---------------------------------------------------------------------------
(* The programs: what they share *)

decoder == <<data, pc, frame, ret, extension, overflow_checks>>

\* no call of parse_crx is stepped; the programs call parse_crx_alone
NoCalls ==
    /\ data = [c \in Calls |-> EmptyVec]
    /\ pc = [c \in Calls |-> "idle"]
    /\ frame = [c \in Calls |-> NoFrame]
    /\ ret = [c \in Calls |-> Running]
    /\ extension = [c \in Calls |-> NoExtension]
    /\ overflow_checks \in BOOLEAN

\* the process ends: a return from main, process::exit, or a panic
Exit(status, message) ==
    proc' = [proc EXCEPT !.at = "exited", !.status = status, !.message = message]

\* the paths of the files below dir
collect_all_files(f, dir) ==
    {n.path : n \in {m \in f : m.kind = "file" /\ IsPrefix(dir, m.path)}}

\* the directories that lead to the files in nodes
ParentsOf(nodes) ==
    UNION {{DirNode(SubSeq(n.path, 1, k)) : k \in 1..(Len(n.path) - 1)} : n \in nodes}

---------------------------------------------------------------------------
(* tests/integration_tests.rs: test_overwrite_existing_extraction, for any  *)
(* payload and any files already in the directory                          *)

OverwriteTestDir == << <<"tmp">>, <<"overwrite-test">> >>

\* files the directory may hold before the first extraction
HeldFiles ==
    { FileNode(OverwriteTestDir \o << <<"keep", "txt">> >>, VecOf(<<9>>)),
      FileNode(OverwriteTestDir \o << <<"manifest", "json">> >>, VecOf(<<8>>)),
      FileNode(OverwriteTestDir \o << <<"js">>, <<"old", "js">> >>, VecOf(<<7>>)),
      FileNode(OverwriteTestDir \o << <<"icons">> >>, VecOf(<<6>>)) }

\* names of the file the test writes between the two extractions
DummyNames == { <<"dummy", "txt">>, <<"manifest", "json">> }

\* payloads handed to extract_zip_to_directory: the archives and a non-archive
Payloads == {VecOf(a.bytes) : a \in Archives} \cup {VecOf(<<1, 2, 3, 4>>)}

InitExtract ==
    /\ NoCalls
    /\ \E held \in SUBSET HeldFiles, zip \in Payloads, dummy \in DummyNames :
          /\ fs = held \cup ParentsOf(held) \cup {DirNode(<< <<"tmp">> >>)}
          /\ locals = [zip                      |-> zip,
                       extract_dir              |-> OverwriteTestDir,
                       held                     |-> held,
                       first_extraction_files   |-> {},
                       dummy_file               |-> OverwriteTestDir \o <<dummy>>,
                       second_extraction_files  |-> {}]
    /\ proc = [NotStarted EXCEPT !.mode = "test", !.at = "first"]
    /\ app = NoApp

\* extract_zip_to_directory(..).expect(..); collect_all_files
test_first_extraction ==
    /\ proc.mode = "test" /\ proc.at = "first"
    /\ LET r == extract_zip_to_directory(fs, locals.zip, locals.extract_dir)
       IN  /\ fs' = r.fs
           /\ IF r.ok
              THEN /\ locals' = [locals EXCEPT !.first_extraction_files =
                                     collect_all_files(r.fs, locals.extract_dir)]
                   /\ proc' = [proc EXCEPT !.at = "dummy"]
              ELSE /\ Exit(101, "Failed to extract ZIP contents first time")
                   /\ UNCHANGED locals
    /\ UNCHANGED <<decoder, app>>

\* fs::write(&dummy_file, ..).expect(..)
test_write_dummy ==
    /\ proc.mode = "test" /\ proc.at = "dummy"
    /\ LET r == File_create(fs, locals.dummy_file, VecOf(<<0>>))
       IN  /\ fs' = r.fs
           /\ IF r.ok
              THEN proc' = [proc EXCEPT !.at = "second"]
              ELSE Exit(101, "Failed to create dummy file")
    /\ UNCHANGED <<decoder, locals, app>>

\* the second extract_zip_to_directory(..).expect(..); collect_all_files
test_second_extraction ==
    /\ proc.mode = "test" /\ proc.at = "second"
    /\ LET r == extract_zip_to_directory(fs, locals.zip, locals.extract_dir)
       IN  /\ fs' = r.fs
           /\ IF r.ok
              THEN /\ locals' = [locals EXCEPT !.second_extraction_files =
                                     collect_all_files(r.fs, locals.extract_dir)]
                   /\ proc' = [proc EXCEPT !.at = "collected"]
              ELSE /\ Exit(101, "Failed to extract ZIP contents second time")
                   /\ UNCHANGED locals
    /\ UNCHANGED <<decoder, app>>

NextExtract ==
    \/ test_first_extraction
    \/ test_write_dummy
    \/ test_second_extraction

SpecExtract == InitExtract /\ [][NextExtract]_vars

---------------------------------------------------------------------------
(* The files the binary is run on *)

\* the bytes of a version 2 container: header, key, signature, payload
CrxV2(key, sig, zip) ==
    VecOf(CRX_MAGIC_VALUE \o LeBytes(U(2)) \o LeBytes(U(Len(key)))
              \o LeBytes(U(Len(sig))) \o key \o sig \o zip)

\* the bytes of a version 3 container: 12 header bytes, signed header, payload
CrxV3(header, zip) ==
    VecOf(CRX_MAGIC_VALUE \o LeBytes(U(3)) \o LeBytes(U(Len(header))) \o header \o zip)

\* env::current_dir()
Cwd == << <<"work">> >>

\* the working directory: containers that decode and extract, one whose
\* archive cannot be extracted in full, one whose payload is no archive, ones
\* the decoder refuses (wrong magic, cut in the header), one cut in the key
\* area, one with a name that is not UTF-8, and other files and directories
WorkFiles ==
    { DirNode(Cwd),
      FileNode(Cwd \o << <<"sample", "crx">> >>, CrxV2(<<11, 12>>, <<13>>, <<80, 75, 3, 1>>)),
      FileNode(Cwd \o << <<"\\xFF", "crx">> >>, CrxV2(<<>>, <<>>, <<80, 75, 3, 2>>)),
      FileNode(Cwd \o << <<"clash", "crx">> >>, CrxV2(<<11>>, <<13>>, <<80, 75, 3, 3>>)),
      FileNode(Cwd \o << <<"nozip", "crx">> >>, CrxV2(<<11>>, <<>>, <<1, 2, 3, 4>>)),
      FileNode(Cwd \o << <<"bad", "crx">> >>,
               VecOf(<<67, 114, 50, 51>> \o LeBytes(U(2)) \o LeBytes(U(0)) \o LeBytes(U(0))
                         \o <<80, 75, 3, 1>>)),
      FileNode(Cwd \o << <<"cut", "crx">> >>,
               VecOf(CRX_MAGIC_VALUE \o LeBytes(U(2)) \o <<1, 0>>)),
      FileNode(Cwd \o << <<"short", "crx">> >>,
               VecOf(CRX_MAGIC_VALUE \o LeBytes(U(2)) \o LeBytes(U(0)) \o <<0, 0>>)),
      FileNode(Cwd \o << <<"notes", "txt">> >>, VecOf(<<110>>)),
      DirNode(Cwd \o << <<"pack", "crx">> >>),
      DirNode(Cwd \o << <<"sub">> >>),
      FileNode(Cwd \o << <<"sub">>, <<"theme", "crx">> >>, CrxV3(<<21, 22>>, <<80, 75, 3, 2>>)) }

\* what earlier runs may have left in the output directories
LeftBehind ==
    { {},
      { DirNode(Cwd \o << <<"out">> >>),
        DirNode(Cwd \o << <<"out">>, <<"sample">> >>),
        FileNode(Cwd \o << <<"out">>, <<"sample">>, <<"old", "txt">> >>, VecOf(<<9>>)),
        FileNode(Cwd \o << <<"out">>, <<"sample">>, <<"manifest", "json">> >>, VecOf(<<8>>)),
        DirNode(Cwd \o << <<"out">>, <<"extension">> >>),
        FileNode(Cwd \o << <<"out">>, <<"extension">>, <<"old", "txt">> >>, VecOf(<<9>>)),
        DirNode(Cwd \o << <<"dist">> >>),
        DirNode(Cwd \o << <<"dist">>, <<"sample">> >>),
        FileNode(Cwd \o << <<"dist">>, <<"sample">>, <<"old", "txt">> >>, VecOf(<<9>>)) },
      { FileNode(Cwd \o << <<"out">> >>, VecOf(<<9>>)) },
      { DirNode(Cwd \o << <<"out">> >>),
        FileNode(Cwd \o << <<"out">>, <<"sample">> >>, VecOf(<<9>>)) } }

\* the file arguments of the command line, relative to the working directory
Filenames ==
    { << <<"sample", "crx">> >>, << <<"clash", "crx">> >>, << <<"nozip", "crx">> >>,
      << <<"bad", "crx">> >>, << <<"cut", "crx">> >>, << <<"short", "crx">> >>,
      << <<"notes", "txt">> >>, << <<"pack", "crx">> >>, << <<"missing", "crx">> >>,
      << <<"sub">>, <<"theme", "crx">> >> }

\* the --output-dir option
OutputDirs == {NoName, SomeName(<< <<"dist">> >>)}

---------------------------------------------------------------------------
(* main.rs and tui_app.rs: the conversion steps both share *)

\* an existing extraction directory left as it is
keep_existing(f, extract_dir) == FsOk(f)

\* if extract_dir.exists() { fs::remove_dir_all(&extract_dir) }
remove_existing(f, extract_dir) ==
    IF exists(f, extract_dir) THEN remove_dir_all(f, extract_dir) ELSE FsOk(f)

\* if !output_dir.exists() { fs::create_dir_all(&output_dir) }
create_missing(f, output_dir) ==
    IF ~exists(f, output_dir) THEN create_dir_all(f, output_dir) ELSE FsOk(f)

---------------------------------------------------------------------------
(* main.rs: main with a file argument, statement by statement *)

NoMainLocals ==
    [filename        |-> <<>>,
     output_dir      |-> NoName,
     crx_file_path   |-> <<>>,
     data            |-> EmptyVec,
     extension       |-> NoExtension,
     output_base_dir |-> <<>>,
     extract_dir     |-> <<>>]

\* a statement of main that touches the file system: .expect(message) on it
MainFsStep(r, message, next) ==
    /\ fs' = r.fs
    /\ IF r.ok THEN proc' = [proc EXCEPT !.at = next] ELSE Exit(101, message)

\* the file name not looked at
main_ends_with_any ==
    /\ proc.mode = "cli" /\ proc.at = "ends_with"
    /\ proc' = [proc EXCEPT !.at = "exists"]
    /\ UNCHANGED <<decoder, fs, locals, app>>

\* match filename.ends_with(".crx") { .. false => exit_with_error(..) }
main_ends_with ==
    /\ proc.mode = "cli" /\ proc.at = "ends_with"
    /\ IF ends_with_crx(locals.filename[Len(locals.filename)])
       THEN proc' = [proc EXCEPT !.at = "exists"]
       ELSE Exit(2, "Unsupported file type. Only CRX files are supported")
    /\ UNCHANGED <<decoder, fs, locals, app>>

\* let crx_file_path = current_dir.join(&filename); if !crx_file_path.exists()
\* { exit_with_error(NotFound) }
main_exists ==
    /\ proc.mode = "cli" /\ proc.at = "exists"
    /\ locals' = [locals EXCEPT !.crx_file_path = Cwd \o locals.filename]
    /\ IF exists(fs, Cwd \o locals.filename)
       THEN proc' = [proc EXCEPT !.at = "read"]
       ELSE Exit(2, "not found")
    /\ UNCHANGED <<decoder, fs, app>>

\* let data = fs::read(..).expect("Failed to read file")
main_read ==
    /\ proc.mode = "cli" /\ proc.at = "read"
    /\ LET r == fs_read(fs, locals.crx_file_path)
       IN  IF r.ok
           THEN /\ locals' = [locals EXCEPT !.data = r.val]
                /\ proc' = [proc EXCEPT !.at = "parse_crx"]
           ELSE /\ Exit(101, "Failed to read file")
                /\ UNCHANGED locals
    /\ UNCHANGED <<decoder, fs, app>>

\* the result of parse_crx taken with unwrap_or_default
main_parse_crx_unwrap_or_default ==
    /\ proc.mode = "cli" /\ proc.at = "parse_crx"
    /\ locals' = [locals EXCEPT !.extension =
                      parse_crx_alone(locals.data, overflow_checks).extension]
    /\ proc' = [proc EXCEPT !.at = "output_base_dir"]
    /\ UNCHANGED <<decoder, fs, app>>

\* let extension = parse_crx(&data).expect("Failed to parse crx")
main_parse_crx ==
    /\ proc.mode = "cli" /\ proc.at = "parse_crx"
    /\ LET r == parse_crx_alone(locals.data, overflow_checks)
       IN  IF r.ret.kind = "Ok"
           THEN /\ locals' = [locals EXCEPT !.extension = r.extension]
                /\ proc' = [proc EXCEPT !.at = "output_base_dir"]
           ELSE /\ Exit(101, IF r.ret.kind = "Err" THEN "Failed to parse crx" ELSE r.ret.msg)
                /\ UNCHANGED locals
    /\ UNCHANGED <<decoder, fs, app>>

\* let output_base_dir = ..; if !output_base_dir.exists() { create_dir_all }
main_output_base_dir ==
    /\ proc.mode = "cli" /\ proc.at = "output_base_dir"
    /\ LET output_base_dir ==
               Cwd \o (IF locals.output_dir.some THEN locals.output_dir.val
                                                  ELSE << <<"out">> >>)
       IN  /\ locals' = [locals EXCEPT !.output_base_dir = output_base_dir]
           /\ MainFsStep(create_missing(fs, output_base_dir),
                         "Failed to create base output directory", "extract_dir")
    /\ UNCHANGED <<decoder, app>>

\* let crx_name = ..; let extract_dir = output_base_dir.join(crx_name);
\* if extract_dir.exists() { remove_dir_all }
main_extract_dir ==
    /\ proc.mode = "cli" /\ proc.at = "extract_dir"
    /\ LET extract_dir ==
               locals.output_base_dir \o <<stem_or_extension(locals.crx_file_path)>>
       IN  /\ locals' = [locals EXCEPT !.extract_dir = extract_dir]
           /\ MainFsStep(remove_existing(fs, extract_dir),
                         "Failed to remove existing directory", "create_dir_all")
    /\ UNCHANGED <<decoder, app>>

\* fs::create_dir_all(&extract_dir).expect(..)
main_create_dir_all ==
    /\ proc.mode = "cli" /\ proc.at = "create_dir_all"
    /\ MainFsStep(create_dir_all(fs, locals.extract_dir),
                  "Failed to create extraction directory", "extract")
    /\ UNCHANGED <<decoder, locals, app>>

\* extract_zip_to_directory(&extension.zip, &extract_dir).expect(..)
main_extract ==
    /\ proc.mode = "cli" /\ proc.at = "extract"
    /\ MainFsStep(extract_zip_to_directory(fs, locals.extension.zip, locals.extract_dir),
                  "Failed to extract zip contents", "println")
    /\ UNCHANGED <<decoder, locals, app>>

\* println!("Successfully extracted ..") and the return from main
main_println ==
    /\ proc.mode = "cli" /\ proc.at = "println"
    /\ Exit(0, "Successfully extracted")
    /\ UNCHANGED <<decoder, fs, locals, app>>

main ==
    \/ main_ends_with
    \/ main_exists
    \/ main_read
    \/ main_parse_crx
    \/ main_output_base_dir
    \/ main_extract_dir
    \/ main_create_dir_all
    \/ main_extract
    \/ main_println

InitMain ==
    /\ NoCalls
    /\ \E left \in LeftBehind : fs = WorkFiles \cup left
    /\ \E filename \in Filenames, output_dir \in OutputDirs :
          locals = [NoMainLocals EXCEPT !.filename = filename, !.output_dir = output_dir]
    /\ proc = [NotStarted EXCEPT !.mode = "cli", !.at = "ends_with", !.cwd = Cwd]
    /\ app = NoApp

---------------------------------------------------------------------------
(* tui_app.rs: App *)

FileBrowser == [kind |-> "FileBrowser", path |-> <<>>, msg |-> ""]

Processing == [kind |-> "Processing", path |-> <<>>, msg |-> ""]

Success(output_path) == [kind |-> "Success", path |-> output_path, msg |-> ""]

Error(message) == [kind |-> "Error", path |-> <<>>, msg |-> message]

ParentDirectory == [kind |-> "ParentDirectory", path |-> <<>>]

Directory(path) == [kind |-> "Directory", path |-> path]

CrxFile(path) == [kind |-> "CrxFile", path |-> path]

\* ListState: nothing selected, or the index i
Unselected == [some |-> FALSE, val |-> 0]

Selected(i) == [some |-> TRUE, val |-> i]

\* the file names of the model in the order of their bytes
NameOrder ==
    << <<"bad", "crx">>, <<"clash">>, <<"clash", "crx">>, <<"cut", "crx">>, <<"dist">>,
       <<"extension">>, <<"icons">>, <<"js">>, <<"nozip">>, <<"nozip", "crx">>,
       <<"out">>, <<"pack", "crx">>, <<"sample">>, <<"sample", "crx">>,
       <<"short", "crx">>, <<"sub">>, <<"theme">>, <<"theme", "crx">>, <<"work">>,
       <<"\\xFF", "crx">> >>

\* the place of a path's file name in that order
Rank(path) == CHOOSE i \in 1..Len(NameOrder) : NameOrder[i] = path[Len(path)]

\* sort_by(|a, b| a.file_name().cmp(&b.file_name())) of the paths in S
RECURSIVE sort_by_file_name(_)
sort_by_file_name(S) ==
    IF S = {}
    THEN <<>>
    ELSE LET first == CHOOSE p \in S : \A q \in S : Rank(p) <= Rank(q)
         IN  <<first>> \o sort_by_file_name(S \ {first})

\* App::refresh_items
refresh_items(f, a) ==
    LET entries == read_dir(f, a.current_dir)
        directories == sort_by_file_name({p \in entries : is_dir(f, p)})
        crx_files == sort_by_file_name(
                         {p \in entries : /\ ~is_dir(f, p)
                                          /\ is_file(f, p)
                                          /\ path_extension(p) = SomeName(<<"crx">>)})
    IN  [a EXCEPT !.items =
            (IF a.current_dir # <<>> THEN <<ParentDirectory>> ELSE <<>>)
            \o [i \in 1..Len(directories) |-> Directory(directories[i])]
            \o [i \in 1..Len(crx_files) |-> CrxFile(crx_files[i])]]

\* the next index taken without looking at the length of the list
next_item_unbounded(a) ==
    [a EXCEPT !.selected_item =
        IF a.selected_item.some THEN Selected(a.selected_item.val + 1) ELSE Selected(0)]

\* App::next_item (indices count from 0)
next_item(a) ==
    IF a.items = <<>>
    THEN a
    ELSE [a EXCEPT !.selected_item =
             IF a.selected_item.some
             THEN IF a.selected_item.val >= Len(a.items) - 1
                  THEN Selected(0)
                  ELSE Selected(a.selected_item.val + 1)
             ELSE Selected(0)]

\* App::previous_item
previous_item(a) ==
    IF a.items = <<>>
    THEN a
    ELSE [a EXCEPT !.selected_item =
             IF a.selected_item.some
             THEN IF a.selected_item.val = 0
                  THEN Selected(Len(a.items) - 1)
                  ELSE Selected(a.selected_item.val - 1)
             ELSE Selected(0)]

\* App::reset_to_browser
reset_to_browser(a) == [a EXCEPT !.state = FileBrowser]

\* how a conversion ends, and the file system it leaves
Converted(kind, msg, path, f) == [kind |-> kind, msg |-> msg, path |-> path, fs |-> f]

\* extract_zip_to_directory(&extension.zip, &extract_dir)?, reached when the
\* extraction directory was created
convert_extract(created, zip, extract_dir) ==
    IF created.ok
    THEN extract_zip_to_directory(created.fs, zip, extract_dir)
    ELSE created

\* fs::create_dir_all(&extract_dir)?, reached when nothing failed before
convert_create(removed, zip, extract_dir) ==
    IF removed.ok
    THEN convert_extract(create_dir_all(removed.fs, extract_dir), zip, extract_dir)
    ELSE removed

\* if extract_dir.exists() { fs::remove_dir_all(&extract_dir)? }, reached
\* when the output directory is there
convert_remove(made, zip, extract_dir) ==
    IF made.ok
    THEN convert_create(remove_existing(made.fs, extract_dir), zip, extract_dir)
    ELSE made

\* App::convert_crx_file from the output directory on: create it if missing,
\* remove an existing extraction directory, create it, extract the payload
convert_files(f, output_dir, extract_dir, zip) ==
    convert_remove(create_missing(f, output_dir), zip, extract_dir)

\* Ok(extract_dir.to_string_lossy().to_string()), or the error of a step
ConvertedFiles(r, extract_dir) ==
    IF r.ok
    THEN Converted("Ok", "", extract_dir, r.fs)
    ELSE Converted("Err", r.msg, <<>>, r.fs)

\* App::convert_crx_file once parse_crx has ended
ConvertParsed(f, output_dir, crx_path, parsed) ==
    IF parsed.ret.kind # "Ok"
    THEN Converted(parsed.ret.kind, parsed.ret.msg, <<>>, f)
    ELSE ConvertedFiles(convert_files(f, output_dir,
                                      output_dir \o <<stem_or_extension(crx_path)>>,
                                      parsed.extension.zip),
                        output_dir \o <<stem_or_extension(crx_path)>>)

\* App::convert_crx_file once fs::read has ended
ConvertRead(f, output_dir, crx_path, read, checked) ==
    IF ~read.ok
    THEN Converted("Err", read.msg, <<>>, f)
    ELSE ConvertParsed(f, output_dir, crx_path, parse_crx_alone(read.val, checked))

\* App::convert_crx_file
convert_crx_file(f, output_dir, crx_path, checked) ==
    ConvertRead(f, output_dir, crx_path, fs_read(f, crx_path), checked)

\* App::handle_enter on a Directory or ParentDirectory item, or on nothing
handle_enter(f, a) ==
    IF ~a.selected_item.some \/ a.selected_item.val >= Len(a.items)
    THEN a
    ELSE LET item == a.items[a.selected_item.val + 1]
         IN  IF item.kind = "Directory"
             THEN [refresh_items(f, [a EXCEPT !.current_dir = item.path])
                      EXCEPT !.selected_item = Selected(0)]
             ELSE IF item.kind = "ParentDirectory" /\ a.current_dir # <<>>
                  THEN [refresh_items(f, [a EXCEPT !.current_dir = parent(a.current_dir)])
                           EXCEPT !.selected_item = Selected(0)]
                  ELSE a

\* is the selected item a CrxFile
OnCrxFile(a) ==
    /\ a.selected_item.some
    /\ a.selected_item.val < Len(a.items)
    /\ a.items[a.selected_item.val + 1].kind = "CrxFile"

---------------------------------------------------------------------------
(* tui_app.rs: run_tui and the event loop of run_app *)

\* the keys pressed: those the loop matches and one it does not
Keys == {"q", "Esc", "Down", "j", "Up", "k", "Enter", "r", " ", "x"}

\* App::new
App_new ==
    /\ proc.mode = "tui" /\ proc.at = "new"
    /\ LET a == refresh_items(fs, [state         |-> FileBrowser,
                                   items         |-> <<>>,
                                   selected_item |-> Unselected,
                                   current_dir   |-> proc.cwd,
                                   output_dir    |-> proc.cwd \o << <<"out">> >>])
       IN  app' = IF a.items # <<>> THEN [a EXCEPT !.selected_item = Selected(0)] ELSE a
    /\ proc' = [proc EXCEPT !.at = "draw"]
    /\ UNCHANGED <<decoder, fs, locals>>

\* terminal.draw(|f| ui(f, app))
run_app_draw ==
    /\ proc.mode = "tui" /\ proc.at = "draw"
    /\ proc' = [proc EXCEPT !.at = "read", !.key = ""]
    /\ UNCHANGED <<decoder, fs, locals, app>>

\* the key is handled and the loop goes on at next
Handled(key, next) == proc' = [proc EXCEPT !.at = next, !.key = key]

\* return Ok(()) from run_app: run_tui restores the terminal and main returns
Quit(key) ==
    proc' = [proc EXCEPT !.at = "exited", !.key = key, !.status = 0, !.message = ""]

\* event::read() gives a key press and the match on app.state handles it; Enter
\* on a CrxFile sets Processing and goes on to convert_crx_file
run_app_key(key) ==
    /\ proc.mode = "tui" /\ proc.at = "read"
    /\ IF app.state.kind = "FileBrowser"
       THEN IF key \in {"q", "Esc"}
            THEN Quit(key) /\ UNCHANGED app
            ELSE IF key = "Enter" /\ OnCrxFile(app)
                 THEN /\ app' = [app EXCEPT !.state = Processing]
                      /\ Handled(key, "convert_crx_file")
                 ELSE /\ app' = IF key \in {"Down", "j"} THEN next_item(app)
                                ELSE IF key \in {"Up", "k"} THEN previous_item(app)
                                ELSE IF key = "Enter" THEN handle_enter(fs, app)
                                ELSE IF key = "r"
                                     THEN LET a == refresh_items(fs, app)
                                          IN  IF a.items # <<>>
                                              THEN [a EXCEPT !.selected_item = Selected(0)]
                                              ELSE a
                                     ELSE app
                      /\ Handled(key, "draw")
       ELSE IF app.state.kind = "Processing"
            THEN Handled(key, "draw") /\ UNCHANGED app
            ELSE IF key \in {"q", "Esc"}
                 THEN Quit(key) /\ UNCHANGED app
                 ELSE /\ app' = IF key \in {"Enter", " "} THEN reset_to_browser(app) ELSE app
                      /\ Handled(key, "draw")
    /\ UNCHANGED <<decoder, fs, locals>>

\* the error of the conversion passed on with ? instead of shown
handle_enter_match_propagate(r) ==
    /\ fs' = r.fs
    /\ IF r.kind = "Ok"
       THEN /\ app' = [app EXCEPT !.state = Success(r.path)]
            /\ proc' = [proc EXCEPT !.at = "draw"]
       ELSE /\ Exit(IF r.kind = "Panic" THEN 101 ELSE 0, r.msg)
            /\ UNCHANGED app

\* the state set only when the conversion succeeds
handle_enter_match_keep_processing(r) ==
    /\ fs' = r.fs
    /\ IF r.kind = "Panic"
       THEN Exit(101, r.msg) /\ UNCHANGED app
       ELSE /\ app' = IF r.kind = "Ok" THEN [app EXCEPT !.state = Success(r.path)] ELSE app
            /\ proc' = [proc EXCEPT !.at = "draw"]

\* match .. { Ok(output_path) => Success(output_path), Err(e) => Error(..) };
\* a panic inside the conversion ends the process
handle_enter_match(r) ==
    /\ fs' = r.fs
    /\ IF r.kind = "Panic"
       THEN Exit(101, r.msg) /\ UNCHANGED app
       ELSE /\ app' = [app EXCEPT !.state =
                          IF r.kind = "Ok" THEN Success(r.path) ELSE Error(r.msg)]
            /\ proc' = [proc EXCEPT !.at = "draw"]

\* handle_enter on a CrxFile, after Processing was set: convert_crx_file and
\* the match on its result
handle_enter_convert ==
    /\ proc.mode = "tui" /\ proc.at = "convert_crx_file"
    /\ handle_enter_match(convert_crx_file(fs, app.output_dir,
                                           app.items[app.selected_item.val + 1].path,
                                           overflow_checks))
    /\ UNCHANGED <<decoder, locals>>

run_tui ==
    \/ App_new
    \/ run_app_draw
    \/ \E key \in Keys : run_app_key(key)
    \/ handle_enter_convert

\* a root directory that holds no directory and no .crx file
BareRoot == {FileNode(<< <<"notes", "txt">> >>, VecOf(<<110>>))}

\* the terminal UI is started in the working directory, or in a bare root
InitTui ==
    /\ NoCalls
    /\ \/ /\ \E left \in LeftBehind : fs = WorkFiles \cup left
          /\ proc = [NotStarted EXCEPT !.mode = "tui", !.at = "new", !.cwd = Cwd]
       \/ /\ fs = BareRoot
          /\ proc = [NotStarted EXCEPT !.mode = "tui", !.at = "new", !.cwd = <<>>]
    /\ locals = NoLocals
    /\ app = NoApp

---------------------------------------------------------------------------
(* The binary: with a file argument main converts it, without one it runs   *)
(* the terminal UI                                                         *)

InitApp == InitMain \/ InitTui

NextApp == main \/ run_tui

SpecApp == InitApp /\ [][NextApp]_vars

---------------------------------------------------------------------------
(* What the properties read off the input, stated on the bytes themselves *)

Done(c) == pc[c] = "done"
Succeeded(c) == Done(c) /\ ret[c] = Returned
InvalidFormat(c) == Done(c) /\ ret[c] = Failed(InvalidFormatMsg)
TooShort(c) == Done(c) /\ ret[c] = Failed(TooShortMsg)

\* the first four bytes of d, or all of d when it is shorter
FirstFour(d) == SubSeq(d.head, 1, IF Len(d.head) < 4 THEN Len(d.head) ELSE 4)
ValidMagic(d) == FirstFour(d) = <<67, 114, 50, 52>>

\* the little-endian unsigned 32-bit value at bytes [at, at + 4) of d
FieldAt(d, at) ==
    [hi |-> d.head[at + 3] + 256 * d.head[at + 4],
     lo |-> d.head[at + 1] + 256 * d.head[at + 2]]

FormatVersion(d) == FieldAt(d, 4)
KeyLength(d) == FieldAt(d, 8)
\* the signature length that applies: the field for versions <= 2, else 0
SigLength(d) == IF LessEq(FormatVersion(d), U(2)) THEN FieldAt(d, 12) ELSE U(0)
HeaderSize(d) == IF LessEq(FormatVersion(d), U(2)) THEN U(16) ELSE U(12)
\* header_size + signature_length + public_key_length, the exact sum
PayloadOffset(d) == Plus(Plus(HeaderSize(d), SigLength(d)), KeyLength(d))
Larger(a, b) == IF Less(a, b) THEN b ELSE a

---------------------------------------------------------------------------
(* C1 *)

\* C1 as stated: every buffer whose first 4 bytes are not the magic value,
\* of any length, is rejected with InvalidFormat.
C1_AnyLength ==
    (Done(1) /\ ~ValidMagic(data[1])) => InvalidFormat(1)

\* C1: every buffer of at least 4 bytes whose first 4 bytes are not the magic
\* value is rejected with InvalidFormat, whatever follows them.
C1_InvalidFormat ==
    (Done(1) /\ LessEq(U(4), data[1].len) /\ ~ValidMagic(data[1]))
        => InvalidFormat(1)

C1_Witness ==
    /\ InvalidFormat(1)
    /\ LessEq(U(16), data[1].len)
    /\ FirstFour(data[1]) = <<67, 114, 50, 51>>

(* C2 *)

\* C2: every buffer shorter than 16 bytes ends with TooShort, valid magic or
\* not.
C2_ShortIsTooShort ==
    (Done(1) /\ Less(data[1].len, U(16))) => TooShort(1)

(* C3 *)

\* C3: with a valid magic, a key range [16, 16 + public_key_length) or a
\* signature range [16, 16 + signature_length) that ends after the buffer
\* gives TooShort.
C3_KeyAndSignatureChecked ==
    (/\ Done(1)
     /\ ValidMagic(data[1])
     /\ \/ /\ LessEq(U(12), data[1].len)
           /\ Less(data[1].len, Plus(U(16), KeyLength(data[1])))
        \/ /\ LessEq(U(16), data[1].len)
           /\ SigLength(data[1]) # U(0)
           /\ Less(data[1].len, Plus(U(16), SigLength(data[1]))))
        => TooShort(1)

(* C4 *)

\* C4: a call ends with a CrxExtension, InvalidFormat or TooShort, and in no
\* other way.
C4_ThreeOutcomes ==
    Done(1) => (Succeeded(1) \/ InvalidFormat(1) \/ TooShort(1))

(* C5 *)

\* C5: on success zip is the input from header_size + signature_length +
\* public_key_length to its end.
C5_PayloadIsSuffix ==
    Succeeded(1) =>
        /\ LessEq(PayloadOffset(data[1]), data[1].len)
        /\ extension[1].zip = Slice(data[1], PayloadOffset(data[1]), data[1].len)

(* C6 *)

\* C6: on success public_key is the input bytes [16, 16 + public_key_length),
\* public_key_length the little-endian u32 at [8, 12), for every version.
C6_PublicKeyAt16 ==
    Succeeded(1) =>
        /\ LessEq(Plus(U(16), KeyLength(data[1])), data[1].len)
        /\ extension[1].public_key =
              Slice(data[1], U(16), Plus(U(16), KeyLength(data[1])))

C6_Witness ==
    /\ Succeeded(1)
    /\ Less(U(2), FormatVersion(data[1]))
    /\ KeyLength(data[1]) = U(2)
    /\ extension[1].public_key.len = U(2)

(* C7 *)

\* C7: on success signature is present exactly when format_version <= 2 and
\* the u32 at [12, 16) is not 0, and then it is the input bytes
\* [16, 16 + signature_length).
C7_SignatureAt16 ==
    Succeeded(1) =>
        /\ extension[1].signature.some
              <=> (/\ LessEq(FormatVersion(data[1]), U(2))
                   /\ FieldAt(data[1], 12) # U(0))
        /\ extension[1].signature.some =>
              /\ LessEq(Plus(U(16), FieldAt(data[1], 12)), data[1].len)
              /\ extension[1].signature.val =
                    Slice(data[1], U(16), Plus(U(16), FieldAt(data[1], 12)))

C7_Witness ==
    /\ Succeeded(1)
    /\ extension[1].signature.some
    /\ extension[1].signature.val.len = U(2)
    /\ KeyLength(data[1]) = U(1)

(* C8 *)

\* C8: on success with format_version > 2 the signature length is 0, the
\* signature is absent and zip starts at 12 + public_key_length, whatever
\* bytes [12, 16) hold.
C8_Version3Layout ==
    (Succeeded(1) /\ Less(U(2), FormatVersion(data[1]))) =>
        /\ frame[1].signature_key_length = U(0)
        /\ ~extension[1].signature.some
        /\ LessEq(Plus(U(12), KeyLength(data[1])), data[1].len)
        /\ extension[1].zip =
              Slice(data[1], Plus(U(12), KeyLength(data[1])), data[1].len)

(* C9 *)

\* C9: valid magic, format_version <= 2, public_key_length p, signature_length
\* s > 0 and length 16 + s + p + N: the call succeeds, public_key has p bytes,
\* signature has s bytes and zip is the last N bytes.
C9_KeySignaturePayload ==
    (/\ Done(1)
     /\ ValidMagic(data[1])
     /\ LessEq(U(16), data[1].len)
     /\ LessEq(FormatVersion(data[1]), U(2))
     /\ FieldAt(data[1], 12) # U(0)
     /\ LessEq(PayloadOffset(data[1]), data[1].len))
        => /\ Succeeded(1)
           /\ extension[1].public_key.len = KeyLength(data[1])
           /\ extension[1].signature.some
           /\ extension[1].signature.val.len = FieldAt(data[1], 12)
           /\ extension[1].zip =
                 Slice(data[1], PayloadOffset(data[1]), data[1].len)

(* C10 *)

\* C10: valid magic and a length that is exactly the end of the last of the
\* key and signature ranges: the call succeeds and zip is empty.
C10_ExactLengthEmptyPayload ==
    (/\ Done(1)
     /\ ValidMagic(data[1])
     /\ LessEq(U(16), data[1].len)
     /\ data[1].len =
           Plus(U(16), Larger(KeyLength(data[1]), SigLength(data[1]))))
        => /\ Succeeded(1)
           /\ extension[1].zip.len = U(0)

(* C11 *)

\* C11: two calls on the same buffer end the same way: the same return (the
\* same error, or Ok both times) and extensions equal field by field.
C11_SameOutcomeTwice ==
    (Done(1) /\ Done(2)) =>
        /\ ret[1] = ret[2]
        /\ extension[1].version = extension[2].version
        /\ extension[1].public_key = extension[2].public_key
        /\ extension[1].signature.some = extension[2].signature.some
        /\ extension[1].signature.val = extension[2].signature.val
        /\ extension[1].zip = extension[2].zip

C11_Witness ==
    /\ Succeeded(1)
    /\ Succeeded(2)
    /\ data[1] = data[2]
    /\ extension[2].signature.some
    /\ extension[2].zip.len = U(1)

(* C12 *)

\* C12: a call that ends with InvalidFormat or TooShort returns the error and
\* no CrxExtension, none of the fields read before the failing step.
C12_ErrorAlone ==
    (InvalidFormat(1) \/ TooShort(1)) => extension[1] = NoExtension

\* TooShort at the key length, after the version was read
C12_Witness ==
    /\ TooShort(1)
    /\ frame[1].version = U(2)
    /\ extension[1] = NoExtension

(* C13 *)

\* C13: no step of parse_crx changes the input buffer or the build.
C13_BufferUnchanged == [][data' = data /\ overflow_checks' = overflow_checks]_vars

C13_Witness ==
    /\ Succeeded(1)
    /\ extension[1].zip.len = U(2)
    /\ data[1].len = U(20)

(* C14 *)

\* C14: with two calls interleaved, each call ends as it ends when run alone
\* on its buffer.
C14_AsAlone ==
    \A c \in Calls :
        Done(c) =>
            [ret |-> ret[c], extension |-> extension[c]]
                = parse_crx_alone(data[c], overflow_checks)

\* call 1 has returned an extension while call 2, on another buffer, is in
\* the middle of its statements
C14_Witness ==
    /\ Succeeded(1)
    /\ pc[2] = "signature"
    /\ data[1] # data[2]
    /\ frame[1].public_key_length # frame[2].public_key_length

(* C15 *)

\* C15: with a valid magic and at least 12 bytes, the version read is
\* b4 + 256 b5 + 65536 b6 + 16777216 b7 and the key length read is
\* b8 + 256 b9 + 65536 b10 + 16777216 b11; a returned extension carries them.
C15_LittleEndianFields ==
    /\ pc[1] \in {"public_key", "signature_key_length", "signature", "zip"} =>
          /\ frame[1].version = FieldAt(data[1], 4)
          /\ frame[1].public_key_length = FieldAt(data[1], 8)
    /\ Succeeded(1) =>
          /\ extension[1].version = FieldAt(data[1], 4)
          /\ extension[1].public_key.len = FieldAt(data[1], 8)

\* version bytes 02 00 00 01 read as 16777218
C15_Witness ==
    /\ Succeeded(1)
    /\ SubSeq(data[1].head, 5, 8) = <<2, 0, 0, 1>>
    /\ extension[1].version = U(16777218)
    /\ extension[1].public_key.len = U(3)

(* C18 *)

\* C18: once the key and signature reads have succeeded, the offset used for
\* the payload is the exact sum header + signature length + key length.
C18_ExactPayloadOffset ==
    pc[1] = "zip" =>
        LET off == zip_start_offset(frame[1].version, frame[1].signature_key_length,
                                    frame[1].public_key_length, overflow_checks)
        IN  /\ off.ok
            /\ off.val = PayloadOffset(data[1])

(* C17 *)

\* the paths at which the archive in zip_data writes a file below dir
EntryFiles(zip_data, dir) ==
    LET archive == ZipArchive_new(zip_data)
    IN  IF ~archive.ok
        THEN {}
        ELSE {dir \o archive.val[i].name :
                 i \in {k \in 1..Len(archive.val) :
                           ~archive.val[k].dir /\ enclosed_name(archive.val[k]).some}}

Below(dir) == {n \in fs : IsPrefix(dir, n.path) /\ n.path # dir}

\* dir exists and holds nothing but the entries of the archive in zip_data:
\* every file is a file entry with the entry's content, every directory is
\* on the path of an entry
HoldsOnlyEntries(dir, zip_data) ==
    LET archive == ZipArchive_new(zip_data)
    IN  /\ archive.ok
        /\ is_dir(fs, dir)
        /\ \A n \in Below(dir) :
              \E i \in 1..Len(archive.val) :
                  /\ enclosed_name(archive.val[i]).some
                  /\ IF n.kind = "file"
                     THEN /\ ~archive.val[i].dir
                          /\ dir \o archive.val[i].name = n.path
                          /\ archive.val[i].content = n.content
                     ELSE IsPrefix(n.path, dir \o archive.val[i].name)

\* the payload of the container at path
ZipOf(path) == parse_crx_alone(fs_read(fs, path).val, overflow_checks).extension.zip

\* the CrxFile item the terminal UI has converted
ConvertedPath == app.items[app.selected_item.val + 1].path

\* the command line has converted its file
MainSucceeded == proc.mode = "cli" /\ proc.at = "exited" /\ proc.status = 0

\* the terminal UI shows the success of a conversion
TuiSucceeded == proc.mode = "tui" /\ app.state.kind = "Success"

\* C16 as stated: after a successful conversion <output dir>/<file stem>
\* exists and holds only entries of the archive.
C16_StemDirectoryHoldsOnlyEntries ==
    /\ MainSucceeded =>
          HoldsOnlyEntries(locals.output_base_dir \o <<file_stem(locals.crx_file_path).val>>,
                           ZipOf(locals.crx_file_path))
    /\ TuiSucceeded =>
          HoldsOnlyEntries(app.output_dir \o <<file_stem(ConvertedPath).val>>,
                           ZipOf(ConvertedPath))

\* the name of the extraction directory: the stem, or "extension" for a stem
\* that is not UTF-8
StemOrFallback(path) ==
    IF \E k \in 1..Len(file_stem(path).val) : file_stem(path).val[k] \in NotUtf8
    THEN <<"extension">>
    ELSE file_stem(path).val

\* C16: the extraction directory is <output dir>/<file stem>, or
\* <output dir>/extension for a stem that is not valid UTF-8; the command line
\* has it existing and empty when the extraction starts; after a successful
\* conversion it exists and holds only entries of the archive.
C16_ExtractDirHoldsOnlyEntries ==
    /\ proc.mode = "cli" /\ proc.at = "extract" =>
          /\ locals.extract_dir =
                 locals.output_base_dir \o <<StemOrFallback(locals.crx_file_path)>>
          /\ is_dir(fs, locals.extract_dir)
          /\ Below(locals.extract_dir) = {}
    /\ MainSucceeded =>
          HoldsOnlyEntries(locals.output_base_dir \o <<StemOrFallback(locals.crx_file_path)>>,
                           ZipOf(locals.crx_file_path))
    /\ TuiSucceeded =>
          /\ app.state.path = app.output_dir \o <<StemOrFallback(ConvertedPath)>>
          /\ HoldsOnlyEntries(app.state.path, ZipOf(ConvertedPath))

\* the terminal UI has converted the file whose name is not UTF-8 into
\* out/extension, which held a file of an earlier run; the directory of
\* another earlier run is still as it was
C16_Witness ==
    /\ TuiSucceeded
    /\ ConvertedPath = Cwd \o << <<"\\xFF", "crx">> >>
    /\ app.state.path = Cwd \o << <<"out">>, <<"extension">> >>
    /\ FileNode(Cwd \o << <<"out">>, <<"extension">>, <<"icons">>, <<"16", "png">> >>,
                VecOf(<<3>>)) \in fs
    /\ ~exists(fs, Cwd \o << <<"out">>, <<"extension">>, <<"old", "txt">> >>)
    /\ exists(fs, Cwd \o << <<"out">>, <<"sample">>, <<"old", "txt">> >>)

(* C19 *)

\* how parse_crx ends on the bytes of the file named on the command line
DecodedArgument == parse_crx_alone(fs_read(fs, Cwd \o locals.filename).val, overflow_checks)

\* the file systems the binary may start on
StartFileSystems == {WorkFiles \cup left : left \in LeftBehind}

\* C19: when parse_crx returns an error for the .crx file of the command
\* line, main does not get past the decoding, it ends with the message of the
\* failed decoding and a non-zero status, and the file system is untouched.
C19_DecodeFailureExits ==
    (/\ proc.mode = "cli"
     /\ ends_with_crx(locals.filename[Len(locals.filename)])
     /\ is_file(fs, Cwd \o locals.filename)
     /\ DecodedArgument.ret.kind = "Err")
        => /\ proc.at \in {"ends_with", "exists", "read", "parse_crx", "exited"}
           /\ proc.at = "exited" =>
                 /\ proc.status # 0
                 /\ proc.message = "Failed to parse crx"
           /\ fs \in StartFileSystems

\* main has ended on a container cut inside its header
C19_Witness ==
    /\ proc.mode = "cli" /\ proc.at = "exited"
    /\ locals.filename = << <<"cut", "crx">> >>
    /\ DecodedArgument.ret = Failed(TooShortMsg)
    /\ proc.status = 101

(* C20 *)

FirstFailure ==
    IF ~ends_with_crx(locals.filename[Len(locals.filename)]) THEN "ends_with"
    ELSE IF ~exists(fs, Cwd \o locals.filename) THEN "exists"
    ELSE IF ~is_file(fs, Cwd \o locals.filename) THEN "read"
    ELSE IF DecodedArgument.ret.kind # "Ok" THEN "parse_crx"
    ELSE "none"

\* main has ended without converting the file
MainFailed == proc.mode = "cli" /\ proc.at = "exited" /\ proc.status # 0

\* the checks are made in the order ends_with, exists, read, parse_crx: main
\* ends at the first that fails, with its error, and gets past the decoding
\* only when none fails
ChecksInOrder ==
    /\ FirstFailure = "ends_with" =>
          /\ proc.at \in {"ends_with", "exited"}
          /\ proc.at = "exited" =>
                /\ proc.status = 2
                /\ proc.message = "Unsupported file type. Only CRX files are supported"
    /\ FirstFailure = "exists" =>
          /\ proc.at \in {"ends_with", "exists", "exited"}
          /\ proc.at = "exited" => proc.status = 2 /\ proc.message = "not found"
    /\ FirstFailure = "read" =>
          /\ proc.at \in {"ends_with", "exists", "read", "exited"}
          /\ proc.at = "exited" => proc.status = 101 /\ proc.message = "Failed to read file"
    /\ FirstFailure = "parse_crx" =>
          /\ proc.at \in {"ends_with", "exists", "read", "parse_crx", "exited"}
          /\ proc.at = "exited" => proc.status = 101
    /\ proc.at \in {"ends_with", "exists", "read", "parse_crx", "output_base_dir"} =>
          fs \in StartFileSystems

\* C21 as stated: the checks are made in their order, and on every failing
\* path no output directory is created or removed.
C21_NoFailingPathTouchesOutput ==
    proc.mode = "cli" =>
        /\ ChecksInOrder
        /\ MainFailed => fs \in StartFileSystems

\* C21: the checks are made in their order, and on every path that fails at
\* one of them (file name, existence, reading, decoding) no output directory
\* is created or removed; a path that fails later has got past the decoding.
C21_ChecksBeforeOutput ==
    proc.mode = "cli" =>
        /\ ChecksInOrder
        /\ FirstFailure # "none" => fs \in StartFileSystems
        /\ (MainFailed /\ fs \notin StartFileSystems) =>
              /\ FirstFailure = "none"
              /\ proc.message \in {"Failed to create base output directory",
                                    "Failed to remove existing directory",
                                    "Failed to create extraction directory",
                                    "Failed to extract zip contents"}

\* main has failed at the extraction of a payload that is no archive, after
\* it created the output directory and the extraction directory
C21_Witness ==
    /\ MainFailed
    /\ locals.filename = << <<"nozip", "crx">> >>
    /\ proc.message = "Failed to extract zip contents"
    /\ is_dir(fs, Cwd \o << <<"out">>, <<"nozip">> >>)
    /\ fs \notin StartFileSystems

(* C22 *)

\* C22: on success the payload is as long as the input after the payload
\* offset: header size + key length + signature length + payload length is
\* the input length, and the key returned has the key length.
C22_LengthsAddUp ==
    Succeeded(1) =>
        /\ extension[1].public_key.len = KeyLength(data[1])
        /\ Plus(PayloadOffset(data[1]), extension[1].zip.len) = data[1].len
        /\ Plus(Plus(Plus(HeaderSize(data[1]), extension[1].public_key.len),
                     SigLength(data[1])),
                extension[1].zip.len) = data[1].len

(* C23 *)

\* C23: on success with a version above 2 the payload has at least 4 bytes
\* and its first 4 bytes are the input bytes [12 + key length, 16 + key
\* length), the 4 bytes that end where the key returned ends.
C23_Version3PayloadStart ==
    (Succeeded(1) /\ Less(U(2), FormatVersion(data[1]))) =>
        /\ LessEq(U(4), extension[1].zip.len)
        /\ \A k \in 0..3 :
              ByteAt(extension[1].zip, U(k))
                  = ByteAt(data[1], Plus(Plus(U(12), KeyLength(data[1])), U(k)))

(* C24 *)

\* the buffer has all 16 header bytes and is long enough for the key read,
\* the signature read and the payload offset
SufficientLength(d) ==
    /\ LessEq(U(16), d.len)
    /\ LessEq(Plus(U(16), KeyLength(d)), d.len)
    /\ LessEq(Plus(U(16), SigLength(d)), d.len)
    /\ LessEq(PayloadOffset(d), d.len)

\* C24: whatever the version field holds, a buffer with the magic value and
\* sufficient length is decoded, and the version returned is the field.
C24_AnyVersionDecodes ==
    (Done(1) /\ ValidMagic(data[1]) /\ SufficientLength(data[1])) =>
        /\ Succeeded(1)
        /\ extension[1].version = FormatVersion(data[1])

(* C25 *)

\* C25: when run_app draws or waits for a key the state is FileBrowser,
\* Success or Error; Processing is the state only inside handle_enter, between
\* the assignment and the match on the result of convert_crx_file (or in a
\* process that a panic of the conversion has ended).
C25_ProcessingNeverShown ==
    proc.mode = "tui" =>
        /\ proc.at \in {"draw", "read"} =>
              app.state.kind \in {"FileBrowser", "Success", "Error"}
        /\ app.state.kind = "Processing" =>
              \/ proc.at = "convert_crx_file"
              \/ proc.at = "exited" /\ proc.status = 101

\* run_app waits for a key after a conversion, which went through Processing,
\* has ended in Success
C25_Witness ==
    /\ proc.mode = "tui" /\ proc.at = "read"
    /\ app.state = Success(Cwd \o << <<"out">>, <<"sample">> >>)
    /\ ConvertedPath = Cwd \o << <<"sample", "crx">> >>

(* C26 *)

\* the index after i in a list of n items, and the index before it
After(i, n) == IF i = n - 1 THEN 0 ELSE i + 1

Before(i, n) == IF i = 0 THEN n - 1 ELSE i - 1

\* C26: from App::new on, a non-empty item list has a selected index in
\* [0, len(items)); Down and j move it to the next index and from the last
\* to 0, Up and k to the previous and from 0 to the last, and neither changes
\* anything when the list is empty; App::new, a change of directory and a
\* refresh that give a non-empty list select index 0.
C26_SelectionInRange ==
    [][(proc'.mode = "tui" /\ proc'.at # "new") =>
          /\ app'.items # <<>> =>
                /\ app'.selected_item.some
                /\ app'.selected_item.val \in 0..(Len(app'.items) - 1)
          /\ (proc.at = "new" /\ app'.items # <<>>) => app'.selected_item = Selected(0)
          /\ (proc.at = "read" /\ app.state.kind = "FileBrowser") =>
                /\ proc'.key \in {"Down", "j"} =>
                      app' = IF app.items = <<>>
                             THEN app
                             ELSE [app EXCEPT !.selected_item =
                                      Selected(After(app.selected_item.val, Len(app.items)))]
                /\ proc'.key \in {"Up", "k"} =>
                      app' = IF app.items = <<>>
                             THEN app
                             ELSE [app EXCEPT !.selected_item =
                                      Selected(Before(app.selected_item.val, Len(app.items)))]
                /\ (proc'.key = "r" /\ app'.items # <<>>) =>
                      app'.selected_item = Selected(0)
          /\ (proc.at # "new" /\ app'.current_dir # app.current_dir /\ app'.items # <<>>) =>
                app'.selected_item = Selected(0)
      ]_vars

\* Down on the last of several items has moved the selection to index 0
C26_Witness ==
    /\ proc.mode = "tui" /\ proc.at = "draw"
    /\ proc.key = "Down"
    /\ app.state = FileBrowser
    /\ Len(app.items) > 1
    /\ app.selected_item = Selected(0)

====
